---- MODULE Spec2Model ----
(***************************************************************************)
(* The notification scheduler of src/server.js: the HTTP handlers          *)
(* POST /api/schedule, PUT /api/jobs/:id and DELETE /api/jobs/:id, the     *)
(* BullMQ queue "notifications" with its Worker processor, the EmailJob    *)
(* collection (schema of src/models/EmailJob.js, lines 3-19), the uploads  *)
(* directory and the delivery channel (SendGrid / Twilio).                 *)
(*                                                                         *)
(* Every await of a handler that another handler can interleave with is a  *)
(* step boundary: a handler is a first action (read and validate, or       *)
(* validate and create) that leaves a context in `inflight`, and a second  *)
(* action (queue calls, file calls, record write, response).               *)
(***************************************************************************)
EXTENDS Integers, FiniteSets, Sequences, TLC

(* ------------------------------ bounds -------------------------------- *)

\* The clock runs over 0..MaxTime (one tick = one hour).
MaxTime == 1
\* EmailJob documents ever created.
MaxRecords == 1
\* Jobs ever added to the queue.
MaxJobs == 2
\* Files ever written to uploads/ by multer.
MaxFiles == 2
\* HTTP handlers suspended at an await at the same time.
MaxInflight == 1
\* Calendar years after the first that the clock of the cron variant runs
\* through.
MaxYears == 1

(* ----------------------------- constants ------------------------------ *)

\* src/server.js:325 and :536, `attempts: 3`.
Attempts == 3
\* src/server.js:167: the Worker is built without `concurrency`, BullMQ's default.
WorkerConcurrency == 1

Users == {"u1", "u2"}
Methods == {"email", "sms", "whatsapp"}
\* Zones Intl.supportedValuesOf("timeZone") lists, and one it does not.
Zones == {"UTC", "Europe/Paris"}
BadZone == "Mars/Phobos"
\* The message the delivery channel raises with on a job's n-th attempt.
ChannelError(n) == <<"e1", "e2", "e3", "e4">>[n]
ChannelErrors == {ChannelError(n) : n \in 1..4}
ReadFileError == "ENOENT"
StoreError == "store"
QueueError == "queue"
NoError == ""

\* Identifiers: ObjectId strings for documents, the queue's counter for jobs.
ObjectId(n) == <<"oid1", "oid2", "oid3", "oid4">>[n]
RecordIds == {ObjectId(n) : n \in 1..3}
NoId == "none"
CounterId(n) == <<"1", "2", "3", "4", "5">>[n]

\* A datetime string of a request body: parseable local time t, unparseable
\* text, or absent (undefined or "").
LocalTimes == 0..(MaxTime + 1)
DateStrings == [kind : {"ok"}, t : LocalTimes] \cup {[kind |-> "bad", t |-> 0]}
AbsentString == [kind |-> "absent", t |-> 0]

\* An attachment reference {filename, path}; 0 is undefined.
NoAttachment == [filename |-> 0, path |-> 0]

(* ------------------------- pure functions ----------------------------- *)

\* UTC offset of a zone, in hours.
Offset(tz) == IF tz = "Europe/Paris" THEN 1 ELSE 0

\* date-fns-tz zonedTimeToUtc: the instant at which the wall clock of zone
\* tz shows the given local time; an Invalid Date for unparseable text.
zonedTimeToUtc(datetime, tz) ==
    IF datetime.kind = "ok"
    THEN [valid |-> TRUE, ms |-> datetime.t - Offset(tz)]
    ELSE [valid |-> FALSE, ms |-> 0]

\* A comparison that lets a target up to one hour old through.
DatePastGrace(scheduledTime, t) ==
    scheduledTime.valid /\ scheduledTime.ms - t < -1

\* scheduledTime.getTime() - Date.now() < 0; NaN < 0 is false.
DatePast(scheduledTime, t) == scheduledTime.valid /\ scheduledTime.ms - t < 0

\* A zone check that accepts every name.
SupportedTimeZoneAny(tz) == TRUE

SupportedTimeZone(tz) == tz \in Zones

\* The schema of src/models/EmailJob.js.
MethodEnum == {"email", "sms"}
StatusEnum == {"scheduled", "sent", "failed"}
\* Validation run by EmailJob.create (save): enums, required Date cast.
SchemaValid(doc) ==
    /\ doc.method \in MethodEnum
    /\ doc.status \in StatusEnum
    /\ doc.datetime.valid
\* A schema whose `attachment` declares `path` as well.
SchemaAttachmentWithPath(att) == att

\* Strict mode keeps the declared paths of `attachment` (filename,
\* downloadURL): `path` is not one of them.
SchemaAttachment(att) == [filename |-> att.filename, path |-> 0]

(* ------------------------------- state -------------------------------- *)

VARIABLES
    emailQueue,   \* TRUE iff REDIS_URL is set: the Queue and the Worker exist
    now,          \* Date.now()
    records,      \* the EmailJob collection: _id -> document
    jobs,         \* the queue "notifications": job id -> job
    jobCounter,   \* the queue's id counter (INCR on an add without jobId)
    files,        \* paths that exist under uploads/
    uploads,      \* files multer has written so far (paths 1..uploads)
    inflight,     \* handlers suspended between their two steps
    delivery,     \* the latest call of the delivery channel
    resp          \* the latest HTTP response

vars == <<emailQueue, now, records, jobs, jobCounter, files, uploads,
          inflight, delivery, resp>>

NoDelivery == [id |-> NoId, by |-> "", attempt |-> 0, ok |-> FALSE, at |-> 0]
NoResponse == [op |-> "", status |-> 0, error |-> NoError, jobId |-> NoId]

\* An error handler that answers a fault of the server as a bad request.
ResponseBadRequest(op, status, error, jobId) ==
    [op |-> op, status |-> IF status = 500 THEN 400 ELSE status,
     error |-> error, jobId |-> jobId]

Response(op, status, error, jobId) ==
    [op |-> op, status |-> status, error |-> error, jobId |-> jobId]

Init ==
    /\ emailQueue \in BOOLEAN
    /\ now = 0
    /\ records = <<>>
    /\ jobs = <<>>
    /\ jobCounter = 0
    /\ files = {}
    /\ uploads = 0
    /\ inflight = {}
    /\ delivery = NoDelivery
    /\ resp = NoResponse

(* ---------------------------- record store ---------------------------- *)

\* EmailJob.create: the document as the schema keeps it, under a fresh _id.
StoreCreate(rs, id, doc) ==
    (id :> [doc EXCEPT !.attachment = SchemaAttachment(doc.attachment),
                       !.datetime = doc.datetime.ms]) @@ rs

\* A store call that sets the paths of `update` in every document.
UpdateMany(rs, id, update) ==
    [i \in DOMAIN rs |->
        [f \in DOMAIN rs[i] |->
            IF f \in DOMAIN update THEN update[f] ELSE rs[i][f]]]

\* A store call that deletes the document instead of updating it.
FindByIdAndDelete(rs, id, update) == [i \in DOMAIN rs \ {id} |-> rs[i]]

\* EmailJob.findByIdAndUpdate(id, update): sets the paths of `update`.
\* Update validators are off by default, so no enum is checked here.
FindByIdAndUpdate(rs, id, update) ==
    IF id \in DOMAIN rs
    THEN [rs EXCEPT ![id] =
            [f \in DOMAIN rs[id] |->
                IF f \in DOMAIN update THEN update[f] ELSE rs[id][f]]]
    ELSE rs

(* ------------------------------- queue -------------------------------- *)

\* The options object handed to emailQueue.add.
AddOptions(id, delay) == [id |-> id, delay |-> delay, attempts |-> Attempts]

\* BullMQ takes a custom job id from opts.jobId; without it the job gets
\* the next value of the queue's counter.
HasJobId(opts) == "jobId" \in DOMAIN opts
JobIdFor(opts, counter) ==
    IF HasJobId(opts) THEN opts.jobId ELSE CounterId(counter + 1)

\* An add that returns without the job being stored.
QueueAddDropped(js, counter, data, opts, t) == js

\* Queue.add at time t: a delayed job, due once opts.delay has elapsed; an
\* add under an id the queue already holds is ignored. allRaised records
\* that no attempt of the job so far got a return from the channel.
QueueAdd(js, counter, data, opts, t) ==
    LET id == JobIdFor(opts, counter) IN
    IF id \in DOMAIN js THEN js
    ELSE (id :> [id |-> id, data |-> data, state |-> "delayed",
                 due |-> IF opts.delay > 0 THEN t + opts.delay ELSE t,
                 attempts |-> opts.attempts, attemptsMade |-> 0,
                 allRaised |-> TRUE, result |-> ""]) @@ js
CounterAfterAdd(counter, opts) ==
    IF HasJobId(opts) THEN counter ELSE counter + 1

\* Queue.remove(jobId): removes the job of that id unless a worker holds it.
QueueRemove(js, jobId) ==
    IF jobId \in DOMAIN js /\ js[jobId].state # "active"
    THEN [j \in DOMAIN js \ {jobId} |-> js[j]]
    ELSE js

\* Jobs the queue will still run (delayed, waiting or active).
Pending(js) == {j \in DOMAIN js : js[j].state \in {"delayed", "active"}}

(* --------------------------- delivery channel ------------------------- *)

\* What the try block of a send does before the record write: with an
\* attachment, fs.promises.readFile(attachment.path) raises unless the file
\* exists, and the channel is not called; otherwise the channel is called
\* and returns ("ok") or raises with the message of this attempt.
ReadFails(attachment, fs) ==
    attachment.filename # 0 /\ attachment.path \notin fs
SendResult(method, attachment, fs, sendOk, attempt) ==
    IF method = "email" /\ ReadFails(attachment, fs)
    THEN ReadFileError
    ELSE IF sendOk THEN "ok" ELSE ChannelError(attempt)
ChannelCalled(method, attachment, fs) ==
    ~(method = "email" /\ ReadFails(attachment, fs))

(* ------------------------- POST /api/schedule ------------------------- *)

\* Recipients: the `to` of a POST /api/schedule, the `to` a PUT may carry,
\* and a PUT body without `to`.
PostedTo == "to1"
PutTo == "to2"
NoTo == ""

\* The document POST /api/schedule hands to EmailJob.create; `to` is the
\* decrypted recipient, subject is TRUE when the document carries one.
NewDocumentTo(user, to, method, hasSubject, datetime, timezone, scheduledTime, attachment) ==
    [to |-> to, subject |-> (method = "email" /\ hasSubject),
     datetime |-> scheduledTime, originalLocalTime |-> datetime,
     timezone |-> timezone, status |-> "scheduled", userId |-> user,
     method |-> method, attachment |-> attachment,
     sentAt |-> <<>>, error |-> NoError]

\* The document of a request whose recipient is PostedTo.
NewDocument(user, method, hasSubject, datetime, timezone, scheduledTime, attachment) ==
    NewDocumentTo(user, PostedTo, method, hasSubject, datetime, timezone,
                  scheduledTime, attachment)

\* The job payload of POST /api/schedule and of PUT /api/jobs/:id.
JobData(method, to, id, attachment) ==
    [method |-> method, to |-> to, emailJobId |-> id,
     attachment |-> attachment]

\* First step: multer stores the uploaded file, the handler validates the
\* body and creates the document. hasFields: to, body, datetime and
\* timezone are all present; hasSubject: subject is present; toE164: the
\* recipient matches the E.164 regex.
ScheduleCreateTo(user, method, to, hasFields, hasSubject, toE164, datetime, timezone, hasFile, storeOk, limit) ==
    LET file == IF hasFile THEN uploads + 1 ELSE 0
        scheduledTime == zonedTimeToUtc(datetime, timezone)
        attachment == IF hasFile /\ method = "email"
                      THEN [filename |-> file, path |-> file]
                      ELSE NoAttachment
        id == ObjectId(Cardinality(DOMAIN records) + 1)
        doc == NewDocumentTo(user, to, method, hasSubject, datetime,
                             timezone, scheduledTime, attachment)
        reject(error) ==
            /\ resp' = Response("schedule", 400, error, NoId)
            /\ UNCHANGED <<records, inflight>>
    IN
    /\ Cardinality(DOMAIN records) < limit
    /\ Cardinality(inflight) < MaxInflight
    /\ hasFile => uploads < MaxFiles
    /\ uploads' = IF hasFile THEN file ELSE uploads
    /\ files' = IF hasFile THEN files \cup {file} ELSE files
    /\ IF ~hasFields THEN reject("Missing fields")
       ELSE IF ~SupportedTimeZone(timezone) THEN reject("Invalid timezone")
       ELSE IF method \in {"sms", "whatsapp"} /\ ~toE164
            THEN reject("Invalid phone number")
       ELSE IF DatePast(scheduledTime, now)
            THEN reject("Date is in the past")
       ELSE IF storeOk /\ SchemaValid(doc)
            THEN /\ records' = StoreCreate(records, id, doc)
                 /\ inflight' = inflight \cup
                       {[op |-> "schedule", id |-> id, to |-> to,
                         method |-> method, attachment |-> attachment,
                         delayMs |-> scheduledTime.ms - now]}
                 /\ UNCHANGED resp
            ELSE /\ resp' = Response("schedule", 500, StoreError, NoId)
                 /\ UNCHANGED <<records, inflight>>
    /\ UNCHANGED <<emailQueue, now, jobs, jobCounter, delivery>>

\* A request whose decrypted recipient is PostedTo.
ScheduleCreate(user, method, hasFields, hasSubject, toE164, datetime, timezone, hasFile, storeOk, limit) ==
    ScheduleCreateTo(user, method, PostedTo, hasFields, hasSubject, toE164,
                     datetime, timezone, hasFile, storeOk, limit)

\* Second step: emailQueue.add when the queue exists, else the immediate
\* send; then the response. addOk: the queue call returns; sendOk: the
\* channel, if it is called, returns.
ScheduleSubmit(c, addOk, sendOk) ==
    LET opts == AddOptions(c.id, c.delayMs)
        result == SendResult(c.method, c.attachment, files, sendOk, 1)
    IN
    /\ c \in inflight
    /\ c.op = "schedule"
    /\ inflight' = inflight \ {c}
    /\ IF emailQueue
       THEN /\ jobCounter < MaxJobs
            /\ IF addOk
               THEN /\ jobs' = QueueAdd(jobs, jobCounter,
                                        JobData(c.method, c.to, c.id,
                                                c.attachment),
                                        opts, now)
                    /\ jobCounter' = CounterAfterAdd(jobCounter, opts)
                    /\ resp' = Response("schedule", 200, NoError, c.id)
               ELSE /\ resp' = Response("schedule", 500, QueueError, NoId)
                    /\ UNCHANGED <<jobs, jobCounter>>
            /\ UNCHANGED delivery
       ELSE /\ delivery' =
                 IF ChannelCalled(c.method, c.attachment, files)
                 THEN [id |-> c.id, by |-> "api", attempt |-> 1,
                       ok |-> (result = "ok"), at |-> now]
                 ELSE delivery
            /\ resp' = IF result = "ok"
                       THEN Response("schedule", 200, NoError, c.id)
                       ELSE Response("schedule", 500, result, NoId)
            /\ UNCHANGED <<jobs, jobCounter>>
    /\ UNCHANGED <<emailQueue, now, records, files, uploads>>

(* ------------------------------- worker ------------------------------- *)

\* The processor is invoked on a due job: the job becomes active and the
\* try block runs up to the channel call; its outcome is kept in `result`
\* until the record write. concurrency: how many jobs the workers of the
\* queue hold at once.
WorkerSendAmong(j, sendOk, concurrency) ==
    LET job == jobs[j]
        result == SendResult(job.data.method, job.data.attachment, files,
                             sendOk, job.attemptsMade + 1)
    IN
    /\ emailQueue
    /\ j \in DOMAIN jobs
    /\ job.state = "delayed"
    /\ job.due <= now
    /\ Cardinality({k \in DOMAIN jobs : jobs[k].state = "active"})
          < concurrency
    /\ jobs' = [jobs EXCEPT ![j].state = "active", ![j].result = result,
                            ![j].allRaised = @ /\ result # "ok"]
    /\ delivery' =
         IF ChannelCalled(job.data.method, job.data.attachment, files)
         THEN [id |-> job.data.emailJobId, by |-> j,
               attempt |-> job.attemptsMade + 1,
               ok |-> (result = "ok"), at |-> now]
         ELSE delivery
    /\ UNCHANGED <<emailQueue, now, records, jobCounter, files, uploads,
                   inflight, resp>>

\* The one Worker of a server process, which has BullMQ's default
\* concurrency.
WorkerSend(j, sendOk) == WorkerSendAmong(j, sendOk, WorkerConcurrency)

\* A retry rule that counts the attempts from zero.
AttemptFailedOneMore(job, t) ==
    IF job.attemptsMade + 1 <= job.attempts
    THEN [job EXCEPT !.attemptsMade = @ + 1, !.state = "delayed",
                     !.due = t, !.result = ""]
    ELSE [job EXCEPT !.attemptsMade = @ + 1, !.state = "failed",
                     !.due = 0, !.result = ""]

\* The job after an attempt that raised: delayed again while attempts
\* remain (the backoff of 2-4 s is below one tick, so the retry is due from
\* `now` on), failed after the last one. A finished job keeps its state and
\* its count of attempts.
AttemptFailed(job, t) ==
    IF job.attemptsMade + 1 < job.attempts
    THEN [job EXCEPT !.attemptsMade = @ + 1, !.state = "delayed",
                     !.due = t, !.result = ""]
    ELSE [job EXCEPT !.attemptsMade = @ + 1, !.state = "failed",
                     !.due = 0, !.result = ""]
AttemptCompleted(job) ==
    [job EXCEPT !.attemptsMade = @ + 1, !.state = "completed",
                !.due = 0, !.result = "", !.allRaised = FALSE]

\* The rest of the processor: the record write after the send, or the
\* catch block. sentOk / failedOk: the findByIdAndUpdate of the try block /
\* of the catch block returns (else it raises StoreError).
WorkerFinish(j, sentOk, failedOk) ==
    LET job == jobs[j]
        id == job.data.emailJobId
        err == IF job.result = "ok" THEN StoreError ELSE job.result
    IN
    /\ j \in DOMAIN jobs
    /\ job.state = "active"
    /\ IF job.result = "ok" /\ sentOk
       THEN /\ records' = FindByIdAndUpdate(records, id,
                             [status |-> "sent", sentAt |-> <<now>>])
            /\ jobs' = [jobs EXCEPT ![j] = AttemptCompleted(job)]
       ELSE /\ records' = IF failedOk
                          THEN FindByIdAndUpdate(records, id,
                                  [status |-> "failed", error |-> err])
                          ELSE records
            /\ jobs' = [jobs EXCEPT ![j] = AttemptFailed(job, now)]
    /\ UNCHANGED <<emailQueue, now, jobCounter, files, uploads, inflight,
                   delivery, resp>>

(* -------------------------------- time -------------------------------- *)

Tick ==
    /\ now < MaxTime
    /\ now' = now + 1
    /\ UNCHANGED <<emailQueue, records, jobs, jobCounter, files, uploads,
                   inflight, delivery, resp>>

(* ------------------------------ ownership ----------------------------- *)

\* An ownership test that lets every authenticated caller through.
OwnerAnyone(job, user) == TRUE

\* job.userId !== req.user.uid is false.
Owner(job, user) == job.userId = user

(* -------------------------- PUT /api/jobs/:id ------------------------- *)

NoZone == ""

\* `a || b` on a string of the request body.
OrElse(given, kept) == IF given = NoZone THEN kept ELSE given

\* First step: multer stores the uploaded file; findById, then the checks
\* that read only the document found (404, 403, "Cannot update").
UpdateRead(user, id, hasFile, storeOk) ==
    LET file == IF hasFile THEN uploads + 1 ELSE 0
        reject(status, error) ==
            /\ resp' = Response("update", status, error, NoId)
            /\ files' = IF hasFile THEN files \cup {file} ELSE files
            /\ UNCHANGED inflight
    IN
    /\ Cardinality(inflight) < MaxInflight
    /\ hasFile => uploads < MaxFiles
    /\ uploads' = IF hasFile THEN file ELSE uploads
    /\ IF ~storeOk
       THEN \* findById raises: the catch block unlinks the uploaded file
            /\ resp' = Response("update", 500, "Failed to update job", NoId)
            /\ UNCHANGED <<files, inflight>>
       ELSE IF id \notin DOMAIN records THEN reject(404, "Job not found")
       ELSE IF ~Owner(records[id], user) THEN reject(403, "Not authorized")
       ELSE IF records[id].status # "scheduled"
            THEN reject(400, "Cannot update")
       ELSE /\ inflight' = inflight \cup
                 {[op |-> "update", id |-> id, job |-> records[id],
                   file |-> file]}
            /\ files' = IF hasFile THEN files \cup {file} ELSE files
            /\ UNCHANGED resp
    /\ UNCHANGED <<emailQueue, now, records, jobs, jobCounter, delivery>>

\* The attachment PUT keeps or replaces.
UpdatedAttachment(job, file) ==
    IF file # 0 /\ job.method = "email"
    THEN [filename |-> file, path |-> file]
    ELSE job.attachment

\* newScheduledTime of PUT: set only when the body carries a datetime.
NewScheduledTime(job, datetime, timezone) ==
    zonedTimeToUtc(datetime, OrElse(timezone, job.timezone))

\* The delay PUT hands to emailQueue.add; a NaN delay (Invalid Date) is no
\* delay.
UpdateDelay(job, datetime, timezone, t) ==
    IF datetime.kind # "absent"
    THEN (IF NewScheduledTime(job, datetime, timezone).valid
          THEN NewScheduledTime(job, datetime, timezone).ms - t ELSE 0)
    ELSE job.datetime - t

\* The update document of PUT, as the schema casts it.
UpdateDocument(job, datetime, timezone, file) ==
    [datetime |-> IF datetime.kind # "absent"
                  THEN NewScheduledTime(job, datetime, timezone).ms
                  ELSE job.datetime,
     originalLocalTime |-> IF datetime.kind # "absent"
                           THEN datetime ELSE job.originalLocalTime,
     timezone |-> OrElse(timezone, job.timezone),
     attachment |-> SchemaAttachment(UpdatedAttachment(job, file))]

\* Second step: the checks of the body ("Invalid timezone", "Date is in
\* the past"), then unlink of the replaced file, emailQueue.remove and add,
\* findByIdAndUpdate, response; the catch block unlinks the uploaded file.
\* to: the `to` of the body, which goes into the job payload; the update
\* document has no `to`.
UpdateApplyData(c, to, datetime, timezone, addOk, storeOk) ==
    LET job == c.job
        decryptedTo == IF to # NoTo THEN to ELSE job.to
        given == datetime.kind # "absent"
        replaced == c.file # 0 /\ job.method = "email"
        afterUnlink == IF replaced /\ job.attachment.path # 0
                       THEN files \ {job.attachment.path} ELSE files
        opts == AddOptions(c.id, UpdateDelay(job, datetime, timezone, now))
        castOk == ~given \/ NewScheduledTime(job, datetime, timezone).valid
        added == emailQueue /\ addOk
        ok == (emailQueue => addOk) /\ storeOk /\ castOk
        reject(error) ==
            /\ resp' = Response("update", 400, error, NoId)
            /\ UNCHANGED <<records, jobs, jobCounter, files>>
    IN
    /\ c \in inflight
    /\ c.op = "update"
    /\ emailQueue => jobCounter < MaxJobs
    /\ inflight' = inflight \ {c}
    /\ IF timezone # NoZone /\ ~SupportedTimeZone(timezone)
       THEN reject("Invalid timezone")
       ELSE IF given /\ DatePast(NewScheduledTime(job, datetime, timezone),
                                 now)
       THEN reject("Date is in the past")
       ELSE /\ jobs' =
                 IF added
                 THEN QueueAdd(QueueRemove(jobs, c.id), jobCounter,
                               JobData(job.method, decryptedTo, c.id,
                                       UpdatedAttachment(job, c.file)),
                               opts, now)
                 ELSE IF emailQueue THEN QueueRemove(jobs, c.id) ELSE jobs
            /\ jobCounter' = IF added THEN CounterAfterAdd(jobCounter, opts)
                             ELSE jobCounter
            /\ records' =
                 IF ok
                 THEN FindByIdAndUpdate(records, c.id,
                         UpdateDocument(job, datetime, timezone, c.file))
                 ELSE records
            /\ files' = IF ok THEN afterUnlink ELSE afterUnlink \ {c.file}
            /\ resp' = IF ok THEN Response("update", 200, NoError, c.id)
                       ELSE Response("update", 500, "Failed to update job",
                                     NoId)
    /\ UNCHANGED <<emailQueue, now, uploads, delivery>>

\* A PUT whose body carries no `to`.
UpdateApply(c, datetime, timezone, addOk, storeOk) ==
    UpdateApplyData(c, NoTo, datetime, timezone, addOk, storeOk)

(* ------------------------ DELETE /api/jobs/:id ------------------------ *)

\* First step: findById and the ownership check.
CancelRead(user, id, storeOk) ==
    /\ Cardinality(inflight) < MaxInflight
    /\ IF ~storeOk
       THEN /\ resp' = Response("cancel", 500, "Failed to cancel job", NoId)
            /\ UNCHANGED inflight
       ELSE IF id \notin DOMAIN records
       THEN /\ resp' = Response("cancel", 404, "Job not found", NoId)
            /\ UNCHANGED inflight
       ELSE IF ~Owner(records[id], user)
       THEN /\ resp' = Response("cancel", 403, "Not authorized", NoId)
            /\ UNCHANGED inflight
       ELSE /\ inflight' = inflight \cup
                 {[op |-> "cancel", id |-> id, job |-> records[id]]}
            /\ UNCHANGED resp
    /\ UNCHANGED <<emailQueue, now, records, jobs, jobCounter, files,
                   uploads, delivery>>

\* Second step: emailQueue.remove(id), unlink of the attachment file,
\* findByIdAndUpdate(id, {status: "cancelled"}), response.
CancelApply(c, storeOk) ==
    /\ c \in inflight
    /\ c.op = "cancel"
    /\ inflight' = inflight \ {c}
    /\ jobs' = IF emailQueue THEN QueueRemove(jobs, c.id) ELSE jobs
    /\ files' = IF c.job.attachment.path # 0
                THEN files \ {c.job.attachment.path} ELSE files
    /\ records' = IF storeOk
                  THEN FindByIdAndUpdate(records, c.id,
                                         [status |-> "cancelled"])
                  ELSE records
    /\ resp' = IF storeOk THEN Response("cancel", 200, NoError, c.id)
               ELSE Response("cancel", 500, "Failed to cancel job", NoId)
    /\ UNCHANGED <<emailQueue, now, jobCounter, uploads, delivery>>

(* --------------------------- GET /api/jobs ---------------------------- *)

\* A query without the userId filter.
FindAll(rs, user) == DOMAIN rs

\* EmailJob.find({ userId }): the _ids of the caller's documents.
Find(rs, user) == {id \in DOMAIN rs : rs[id].userId = user}

\* .sort({ datetime: 1 }): ascending datetime, documents of equal datetime
\* in the order of their creation.
RECURSIVE SortByDatetime(_, _)
SortByDatetime(rs, ids) ==
    IF ids = {} THEN <<>>
    ELSE LET first == CHOOSE id \in ids :
                 \A other \in ids :
                    \/ rs[id].datetime < rs[other].datetime
                    \/ /\ rs[id].datetime = rs[other].datetime
                       /\ \E m \in 1..4, n \in 1..4 :
                             ObjectId(m) = id /\ ObjectId(n) = other /\ m <= n
         IN <<first>> \o SortByDatetime(rs, ids \ {first})

\* counts: per method, the found documents of that method whose status is
\* scheduled.
Counts(rs, ids) ==
    [c \in Methods |->
        Cardinality({id \in ids : rs[id].method = c
                                    /\ rs[id].status = "scheduled"})]

\* The handler: the caller's documents, sorted, and the counts; 500 when
\* find raises.
ListJobs(user, storeOk) ==
    /\ resp' = IF storeOk
               THEN [op |-> "list", status |-> 200, error |-> NoError,
                     jobId |-> NoId,
                     jobs |-> SortByDatetime(records, Find(records, user)),
                     counts |-> Counts(records, Find(records, user))]
               ELSE Response("list", 500, "Failed to fetch jobs", NoId)
    /\ UNCHANGED <<emailQueue, now, records, jobs, jobCounter, files,
                   uploads, inflight, delivery>>

(* ------------------------------- auth --------------------------------- *)

\* A route whose upload middleware runs before the authentication.
UnauthorizedAfterUpload(op) ==
    /\ uploads < MaxFiles
    /\ resp' = Response(op, 401, "Unauthorized", NoId)
    /\ uploads' = uploads + 1
    /\ files' = files \cup {uploads + 1}
    /\ UNCHANGED <<emailQueue, now, records, jobs, jobCounter, inflight,
                   delivery>>

\* authenticateFirebase: no Bearer token, or one verifyIdToken rejects.
\* It is the first middleware of every route under /api, before multer.
Unauthorized(op) ==
    /\ resp' = Response(op, 401, "Unauthorized", NoId)
    /\ UNCHANGED <<emailQueue, now, records, jobs, jobCounter, files,
                   uploads, inflight, delivery>>

(* ---------------------------- specification --------------------------- *)

\* resp and delivery hold an output until it has left the process; Flush
\* changes nothing else, and the handlers' steps are taken between outputs,
\* so the reachable values of every other variable are those of the
\* program with its outputs ignored.
Quiet == resp = NoResponse /\ delivery = NoDelivery

Flush ==
    /\ ~Quiet
    /\ resp' = NoResponse
    /\ delivery' = NoDelivery
    /\ UNCHANGED <<emailQueue, now, records, jobs, jobCounter, files,
                   uploads, inflight>>

\* One step of a handler or of the worker, the requests' inputs drawn from
\* the given sets: callers, methods, zones, whether a file is uploaded,
\* whether a record-store call returns, and how many documents may exist.
Step(callers, methods, zones, uploadsFile, storeReturns, limit) ==
    \/ \E user \in callers, method \in methods, hasFields \in BOOLEAN,
          toE164 \in BOOLEAN, datetime \in DateStrings,
          timezone \in zones \cup {BadZone}, hasFile \in uploadsFile,
          storeOk \in storeReturns :
          Quiet /\ ScheduleCreate(user, method, hasFields, TRUE, toE164,
                                  datetime, timezone, hasFile, storeOk,
                                  limit)
    \/ \E c \in inflight, addOk \in BOOLEAN, sendOk \in BOOLEAN :
          Quiet /\ ScheduleSubmit(c, addOk, sendOk)
    \/ \E j \in DOMAIN jobs, sendOk \in BOOLEAN :
          Quiet /\ WorkerSend(j, sendOk)
    \/ \E j \in DOMAIN jobs, sentOk \in storeReturns,
          failedOk \in storeReturns :
          Quiet /\ WorkerFinish(j, sentOk, failedOk)
    \/ \E user \in callers, id \in RecordIds, hasFile \in uploadsFile,
          storeOk \in storeReturns :
          Quiet /\ UpdateRead(user, id, hasFile, storeOk)
    \/ \E c \in inflight, datetime \in DateStrings \cup {AbsentString},
          timezone \in zones \cup {BadZone, NoZone}, addOk \in BOOLEAN,
          storeOk \in storeReturns :
          Quiet /\ UpdateApply(c, datetime, timezone, addOk, storeOk)
    \/ \E user \in callers, id \in RecordIds, storeOk \in storeReturns :
          Quiet /\ CancelRead(user, id, storeOk)
    \/ \E c \in inflight, storeOk \in storeReturns :
          Quiet /\ CancelApply(c, storeOk)
    \/ \E op \in {"schedule", "update", "cancel"} :
          Quiet /\ Unauthorized(op)
    \/ Quiet /\ Tick

\* One text message in one zone, with every failure of the record store,
\* the queue and the channel.
Next ==
    \/ Step({"u1"}, {"sms", "whatsapp"}, {"UTC"}, {FALSE}, BOOLEAN,
            MaxRecords)
    \/ Flush

Spec == Init /\ [][Next]_vars

\* One e-mail, both zones, a record store that returns.
NextZones ==
    \/ Step({"u1"}, {"email"}, Zones, {FALSE}, {TRUE}, MaxRecords)
    \/ Flush

SpecZones == Init /\ [][NextZones]_vars

\* One e-mail with or without an uploaded file, two callers, a channel
\* that returns for the worker; the queue and the record store may fail
\* under PUT.
NextOwners ==
    \/ \E user \in Users, hasFields \in BOOLEAN, datetime \in DateStrings,
          timezone \in {"UTC", BadZone}, hasFile \in BOOLEAN :
          Quiet /\ ScheduleCreate(user, "email", hasFields, TRUE, TRUE,
                                  datetime, timezone, hasFile, TRUE,
                                  MaxRecords)
    \/ \E c \in inflight, sendOk \in BOOLEAN :
          Quiet /\ ScheduleSubmit(c, TRUE, sendOk)
    \/ \E j \in DOMAIN jobs : Quiet /\ WorkerSend(j, TRUE)
    \/ \E j \in DOMAIN jobs : Quiet /\ WorkerFinish(j, TRUE, TRUE)
    \/ \E user \in Users, id \in RecordIds, hasFile \in BOOLEAN :
          Quiet /\ UpdateRead(user, id, hasFile, TRUE)
    \/ \E c \in inflight, datetime \in DateStrings \cup {AbsentString},
          timezone \in {"UTC", BadZone, NoZone}, addOk \in BOOLEAN,
          storeOk \in BOOLEAN :
          Quiet /\ UpdateApply(c, datetime, timezone, addOk, storeOk)
    \/ \E user \in Users, id \in RecordIds :
          Quiet /\ CancelRead(user, id, TRUE)
    \/ \E c \in inflight : Quiet /\ CancelApply(c, TRUE)
    \/ \E user \in Users : Quiet /\ ListJobs(user, TRUE)
    \/ \E op \in {"schedule", "list", "update", "cancel", "logout"} :
          Quiet /\ Unauthorized(op)
    \/ Quiet /\ Tick
    \/ Flush

SpecOwners == Init /\ [][NextOwners]_vars

\* POST /api/schedule alone, over every input of the request.
NextSchedule ==
    \/ \E method \in Methods, hasFields \in BOOLEAN,
          hasSubject \in BOOLEAN, toE164 \in BOOLEAN,
          datetime \in DateStrings, timezone \in Zones \cup {BadZone},
          hasFile \in BOOLEAN, storeOk \in BOOLEAN :
          Quiet /\ ScheduleCreate("u1", method, hasFields, hasSubject,
                                  toE164, datetime, timezone, hasFile,
                                  storeOk, MaxRecords)
    \/ \E c \in inflight, addOk \in BOOLEAN, sendOk \in BOOLEAN :
          Quiet /\ ScheduleSubmit(c, addOk, sendOk)
    \/ Quiet /\ Unauthorized("schedule")
    \/ Quiet /\ Tick
    \/ Flush

SpecSchedule == Init /\ [][NextSchedule]_vars

\* One text message scheduled and rescheduled to a parseable date in one
\* zone; the record store and the queue return on every call.
NextReschedule ==
    \/ \E datetime \in DateStrings :
          Quiet /\ ScheduleCreate("u1", "sms", TRUE, TRUE, TRUE, datetime,
                                  "UTC", FALSE, TRUE, MaxRecords)
    \/ \E c \in inflight : Quiet /\ ScheduleSubmit(c, TRUE, TRUE)
    \/ \E j \in DOMAIN jobs, sendOk \in BOOLEAN :
          Quiet /\ WorkerSend(j, sendOk)
    \/ \E j \in DOMAIN jobs : Quiet /\ WorkerFinish(j, TRUE, TRUE)
    \/ \E id \in RecordIds : Quiet /\ UpdateRead("u1", id, FALSE, TRUE)
    \/ \E c \in inflight, t \in LocalTimes, timezone \in {"UTC", NoZone} :
          Quiet /\ UpdateApply(c, [kind |-> "ok", t |-> t], timezone,
                               TRUE, TRUE)
    \/ Quiet /\ Tick
    \/ Flush

SpecReschedule == Init /\ [][NextReschedule]_vars

\* Two text messages, each with its job, and two server processes on the
\* same queue and collection: their Workers hold up to two jobs at once.
\* The channel and the worker's record writes may fail.
NextWorkers ==
    \/ \E t \in LocalTimes :
          Quiet /\ ScheduleCreate("u1", "sms", TRUE, TRUE, TRUE,
                                  [kind |-> "ok", t |-> t], "UTC", FALSE,
                                  TRUE, MaxJobs)
    \/ \E c \in inflight : Quiet /\ ScheduleSubmit(c, TRUE, TRUE)
    \/ \E j \in DOMAIN jobs, sendOk \in BOOLEAN :
          Quiet /\ WorkerSendAmong(j, sendOk, MaxJobs)
    \/ \E j \in DOMAIN jobs, sentOk \in BOOLEAN, failedOk \in BOOLEAN :
          Quiet /\ WorkerFinish(j, sentOk, failedOk)
    \/ Quiet /\ Tick
    \/ Flush

SpecWorkers == Init /\ [][NextWorkers]_vars

\* Two documents of two callers, e-mail or text message, scheduled,
\* cancelled and listed; the record store returns except under GET.
NextList ==
    \/ \E user \in Users, method \in MethodEnum, t \in LocalTimes :
          Quiet /\ ScheduleCreate(user, method, TRUE, TRUE, TRUE,
                                  [kind |-> "ok", t |-> t], "UTC", FALSE,
                                  TRUE, MaxJobs)
    \/ \E c \in inflight : Quiet /\ ScheduleSubmit(c, TRUE, TRUE)
    \/ \E user \in Users, id \in RecordIds :
          Quiet /\ CancelRead(user, id, TRUE)
    \/ \E c \in inflight : Quiet /\ CancelApply(c, TRUE)
    \/ \E user \in Users, storeOk \in BOOLEAN :
          Quiet /\ ListJobs(user, storeOk)
    \/ Quiet /\ Tick
    \/ Flush

SpecList == Init /\ [][NextList]_vars

\* One text message whose PUT may carry a new recipient; every call
\* returns, and the worker runs the jobs.
NextContent ==
    \/ \E t \in LocalTimes :
          Quiet /\ ScheduleCreate("u1", "sms", TRUE, TRUE, TRUE,
                                  [kind |-> "ok", t |-> t], "UTC", FALSE,
                                  TRUE, MaxRecords)
    \/ \E c \in inflight : Quiet /\ ScheduleSubmit(c, TRUE, TRUE)
    \/ \E j \in DOMAIN jobs : Quiet /\ WorkerSend(j, TRUE)
    \/ \E j \in DOMAIN jobs : Quiet /\ WorkerFinish(j, TRUE, TRUE)
    \/ \E id \in RecordIds : Quiet /\ UpdateRead("u1", id, FALSE, TRUE)
    \/ \E c \in inflight, to \in {NoTo, PutTo},
          datetime \in {[kind |-> "ok", t |-> t] : t \in LocalTimes}
                          \cup {AbsentString} :
          Quiet /\ UpdateApplyData(c, to, datetime, NoZone, TRUE, TRUE)
    \/ Quiet /\ Tick
    \/ Flush

SpecContent == Init /\ [][NextContent]_vars

(* -------------------- src/server35.js: POST /schedule ----------------- *)

\* The variables hold the state of server35.js when it is the program run:
\* its emailQueue (queue "emails"), its EmailJob collection, its responses.

\* new Date(datetime) of an ISO string without zone, on a server in UTC.
NewDate(datetime) ==
    IF datetime.kind = "ok"
    THEN [valid |-> TRUE, ms |-> datetime.t]
    ELSE [valid |-> FALSE, ms |-> 0]

\* The document EmailJob.create({to, subject, body, datetime}) stores under
\* the schema of server35.js: status defaults to "scheduled"; an absent
\* datetime leaves the path unset.
Document35(datetime) ==
    [datetime |-> IF datetime.kind = "ok" THEN <<datetime.t>> ELSE <<>>,
     status |-> "scheduled"]

\* The cast of `datetime` to Date fails on text that is no date.
Schema35Valid(datetime) == datetime.kind # "bad"

\* { delay: new Date(datetime).getTime() - Date.now() }; a NaN delay is no
\* delay. The job has BullMQ's default of one attempt.
AddOptions35(datetime, t) ==
    [delay |-> IF NewDate(datetime).valid THEN NewDate(datetime).ms - t ELSE 0,
     attempts |-> 1]

\* First step: EmailJob.create; a raise is answered 500 by the catch.
Schedule35Create(datetime, storeOk, limit) ==
    LET id == ObjectId(Cardinality(DOMAIN records) + 1) IN
    /\ Cardinality(DOMAIN records) < limit
    /\ Cardinality(inflight) < MaxInflight
    /\ IF storeOk /\ Schema35Valid(datetime)
       THEN /\ records' = (id :> Document35(datetime)) @@ records
            /\ inflight' = inflight \cup
                  {[op |-> "schedule35", id |-> id, datetime |-> datetime]}
            /\ UNCHANGED resp
       ELSE /\ resp' = Response("schedule35", 500,
                                "Failed to schedule email", NoId)
            /\ UNCHANGED <<records, inflight>>
    /\ UNCHANGED <<emailQueue, now, jobs, jobCounter, files, uploads,
                   delivery>>

\* Second step: emailQueue.add when the queue exists, else a warning on the
\* console; then res.send of the success message.
Schedule35Submit(c, addOk) ==
    LET opts == AddOptions35(c.datetime, now) IN
    /\ c \in inflight
    /\ c.op = "schedule35"
    /\ inflight' = inflight \ {c}
    /\ IF emailQueue
       THEN /\ jobCounter < MaxJobs
            /\ IF addOk
               THEN /\ jobs' = QueueAdd(jobs, jobCounter,
                                        [method |-> "email"], opts, now)
                    /\ jobCounter' = CounterAfterAdd(jobCounter, opts)
                    /\ resp' = Response("schedule35", 200, NoError, NoId)
               ELSE /\ resp' = Response("schedule35", 500,
                                        "Failed to schedule email", NoId)
                    /\ UNCHANGED <<jobs, jobCounter>>
       ELSE /\ resp' = Response("schedule35", 200, NoError, NoId)
            /\ UNCHANGED <<jobs, jobCounter>>
    /\ UNCHANGED <<emailQueue, now, records, files, uploads, delivery>>

Next35 ==
    \/ \E datetime \in DateStrings \cup {AbsentString}, storeOk \in BOOLEAN :
          Quiet /\ Schedule35Create(datetime, storeOk, MaxJobs)
    \/ \E c \in inflight, addOk \in BOOLEAN :
          Quiet /\ Schedule35Submit(c, addOk)
    \/ Quiet /\ Tick
    \/ Flush

Spec35 == Init /\ [][Next35]_vars

(* ---------------- src/unnamed/part_008: POST /schedule ---------------- *)

\* The variables hold the state of part_008 when it is the program run: its
\* emailQueue (queue "emails"), its EmailJob collection, its transporter as
\* the channel, its responses. The file starts no Worker.

\* The handler is an async function without a try block around its record
\* store calls: when one raises, the promise the handler returned rejects.
\* forwarded: the router passes the rejection on to the default error
\* handler, which answers 500 (Express 5); otherwise (Express 4) nothing
\* handles the rejection and no response is written, shown as status 0.
Rejected(op, forwarded) ==
    IF forwarded THEN Response(op, 500, "Internal Server Error", NoId)
    ELSE Response(op, 0, "unhandledRejection", NoId)

\* The document EmailJob.create stores.
Document08(user, datetime, timezone, scheduledTime) ==
    [datetime |-> scheduledTime.ms, originalLocalTime |-> datetime,
     timezone |-> timezone, status |-> "scheduled", userId |-> user,
     sentAt |-> <<>>, error |-> NoError]

\* { id: emailJob._id.toString(), delay: delayMs }: BullMQ's default of one
\* attempt.
AddOptions08(id, delay) == [id |-> id, delay |-> delay, attempts |-> 1]

\* First step: the checks of the body, then EmailJob.create. The cast of an
\* Invalid Date to the required `datetime` fails, so create raises.
Schedule08Create(user, hasFields, datetime, timezone, storeOk, forwarded, limit) ==
    LET id == ObjectId(Cardinality(DOMAIN records) + 1)
        scheduledTime == zonedTimeToUtc(datetime, timezone)
        reject(error) ==
            /\ resp' = Response("schedule08", 400, error, NoId)
            /\ UNCHANGED <<records, inflight>>
    IN
    /\ Cardinality(DOMAIN records) < limit
    /\ Cardinality(inflight) < MaxInflight
    /\ IF ~hasFields THEN reject("Missing required fields")
       ELSE IF ~SupportedTimeZone(timezone) THEN reject("Invalid timezone")
       ELSE IF DatePast(scheduledTime, now)
            THEN reject("Cannot schedule email in the past")
       ELSE IF storeOk /\ scheduledTime.valid
            THEN /\ records' = (id :> Document08(user, datetime, timezone,
                                                 scheduledTime)) @@ records
                 /\ inflight' = inflight \cup
                       {[op |-> "schedule08", id |-> id,
                         delayMs |-> scheduledTime.ms - now]}
                 /\ UNCHANGED resp
            ELSE /\ resp' = Rejected("schedule08", forwarded)
                 /\ UNCHANGED <<records, inflight>>
    /\ UNCHANGED <<emailQueue, now, jobs, jobCounter, files, uploads,
                   delivery>>

\* Second step: emailQueue.add when the queue exists; when it does not, or
\* the add raises, transporter.sendMail and the write of sent, and in the
\* catch block the write of failed. sendOk: sendMail returns; sentOk,
\* failedOk: the findByIdAndUpdate of the try block, of the catch block,
\* returns.
Schedule08Submit(c, addOk, sendOk, sentOk, failedOk, forwarded) ==
    LET opts == AddOptions08(c.id, c.delayMs)
        err == IF sendOk THEN StoreError ELSE ChannelError(1)
    IN
    /\ c \in inflight
    /\ c.op = "schedule08"
    /\ inflight' = inflight \ {c}
    /\ emailQueue => jobCounter < MaxJobs
    /\ IF emailQueue /\ addOk
       THEN /\ jobs' = QueueAdd(jobs, jobCounter, [name |-> "sendEmail"],
                                opts, now)
            /\ jobCounter' = CounterAfterAdd(jobCounter, opts)
            /\ resp' = Response("schedule08", 200, NoError, c.id)
            /\ UNCHANGED <<records, delivery>>
       ELSE /\ delivery' = [id |-> c.id, by |-> "api", attempt |-> 1,
                            ok |-> sendOk, at |-> now]
            /\ IF sendOk /\ sentOk
               THEN /\ records' = FindByIdAndUpdate(records, c.id,
                                     [status |-> "sent", sentAt |-> <<now>>])
                    /\ resp' = Response("schedule08", 200, NoError, c.id)
               ELSE IF failedOk
               THEN /\ records' = FindByIdAndUpdate(records, c.id,
                                     [status |-> "failed", error |-> err])
                    /\ resp' = Response("schedule08", 500,
                                        "Failed to send immediately", NoId)
               ELSE /\ resp' = Rejected("schedule08", forwarded)
                    /\ UNCHANGED records
            /\ UNCHANGED <<jobs, jobCounter>>
    /\ UNCHANGED <<emailQueue, now, files, uploads>>

Next08 ==
    \/ \E hasFields \in BOOLEAN, datetime \in DateStrings,
          timezone \in Zones \cup {BadZone}, storeOk \in BOOLEAN,
          forwarded \in BOOLEAN :
          Quiet /\ Schedule08Create("u1", hasFields, datetime, timezone,
                                    storeOk, forwarded, MaxJobs)
    \/ \E c \in inflight, addOk \in BOOLEAN, sendOk \in BOOLEAN,
          sentOk \in BOOLEAN, failedOk \in BOOLEAN, forwarded \in BOOLEAN :
          Quiet /\ Schedule08Submit(c, addOk, sendOk, sentOk, failedOk,
                                    forwarded)
    \/ Quiet /\ Tick
    \/ Flush

Spec08 == Init /\ [][Next08]_vars

(* -------------------- src/server1.js: POST /schedule ------------------ *)

\* The variables hold the state of server1.js when it is the program run:
\* `jobs` are the tasks made by cron.schedule, `jobCounter` counts them,
\* `delivery` is a call of sendEmail, `now` is the current minute.

\* Minutes in a calendar year, and the minutes the clock runs through.
YearLength == MaxTime + 1
CronTimes == 0..((MaxYears + 1) * YearLength - 1)

\* `${minute} ${hour} ${day} ${month} *`: the fields of the expression
\* give the minute within the year; the year and the seconds of runAt are
\* not part of it.
CronExp(runAt) == runAt % YearLength

\* node-cron runs a task at second 0 of every minute its expression
\* matches.
CronMatches(cronExp, t) == cronExp = t % YearLength

\* The handler: the checks of the body, cron.schedule, the response. A new
\* task has missed second 0 of the minute it was made in. There is no
\* comparison of runAt with the current time.
Schedule01(hasFields, scheduleTime) ==
    LET runAt == NewDate(scheduleTime)
        id == CounterId(jobCounter + 1)
    IN
    /\ jobCounter < MaxJobs
    /\ IF ~hasFields
       THEN /\ resp' = Response("schedule01", 400,
                                "Missing required fields", NoId)
            /\ UNCHANGED <<jobs, jobCounter>>
       ELSE IF ~runAt.valid
       THEN /\ resp' = Response("schedule01", 400,
                                "Invalid date/time format", NoId)
            /\ UNCHANGED <<jobs, jobCounter>>
       ELSE /\ jobs' = (id :> [id |-> id, runAt |-> runAt.ms,
                               cronExp |-> CronExp(runAt.ms),
                               lastRun |-> now, sent |-> 0]) @@ jobs
            /\ jobCounter' = jobCounter + 1
            /\ resp' = Response("schedule01", 200, NoError, id)
    /\ UNCHANGED <<emailQueue, now, records, files, uploads, inflight,
                   delivery>>

\* The callback of a task in a minute its expression matches: sendEmail,
\* whose raise is logged. The task is never stopped.
CronRun(k, sendOk) ==
    /\ k \in DOMAIN jobs
    /\ CronMatches(jobs[k].cronExp, now)
    /\ jobs[k].lastRun # now
    /\ jobs' = [jobs EXCEPT ![k].lastRun = now,
                            ![k].sent = IF sendOk THEN @ + 1 ELSE @]
    /\ delivery' = [id |-> k, by |-> "cron", attempt |-> jobs[k].sent + 1,
                    ok |-> sendOk, at |-> now]
    /\ UNCHANGED <<emailQueue, now, records, jobCounter, files, uploads,
                   inflight, resp>>

\* A minute passes.
Tick01 ==
    /\ now + 1 \in CronTimes
    /\ now' = now + 1
    /\ UNCHANGED <<emailQueue, records, jobs, jobCounter, files, uploads,
                   inflight, delivery, resp>>

Next01 ==
    \/ \E hasFields \in BOOLEAN,
          scheduleTime \in {[kind |-> "ok", t |-> t] : t \in CronTimes}
                              \cup {[kind |-> "bad", t |-> 0]} :
          Quiet /\ Schedule01(hasFields, scheduleTime)
    \/ \E k \in DOMAIN jobs, sendOk \in BOOLEAN : Quiet /\ CronRun(k, sendOk)
    \/ Quiet /\ Tick01
    \/ Flush

Spec01 == Init /\ [][Next01]_vars

(* ----------- src/email-scheduler/server.js: POST /schedule-email ------- *)

\* The variables hold the state of email-scheduler/server.js when it is
\* the program run: its emailQueue (queue "emails", always built), the
\* files multer wrote under uploads/, its transporter as the channel.

\* The handler. upload.array("attachments") has stored the uploaded file
\* before the handler runs. delay < 0 is answered 400; an Invalid Date
\* gives a NaN delay, which is not below 0 and is no delay for the queue.
\* emailQueue.add is awaited outside any try block. The job has BullMQ's
\* default of one attempt.
ScheduleEmail(dateTime, hasFile, addOk, forwarded) ==
    LET file == uploads + 1
        attachments == IF hasFile THEN {file} ELSE {}
        runAt == NewDate(dateTime)
        opts == [delay |-> IF runAt.valid THEN runAt.ms - now ELSE 0,
                 attempts |-> 1]
    IN
    /\ emailQueue
    /\ jobCounter < MaxJobs
    /\ hasFile => uploads < MaxFiles
    /\ uploads' = IF hasFile THEN file ELSE uploads
    /\ files' = files \cup attachments
    /\ IF runAt.valid /\ runAt.ms - now < 0
       THEN /\ resp' = Response("schedule-email", 400,
                                "Date/time must be in the future", NoId)
            /\ UNCHANGED <<jobs, jobCounter>>
       ELSE IF addOk
       THEN /\ jobs' = QueueAdd(jobs, jobCounter,
                                [attachments |-> attachments], opts, now)
            /\ jobCounter' = CounterAfterAdd(jobCounter, opts)
            /\ resp' = Response("schedule-email", 200, NoError,
                                JobIdFor(opts, jobCounter))
       ELSE /\ resp' = Rejected("schedule-email", forwarded)
            /\ UNCHANGED <<jobs, jobCounter>>
    /\ UNCHANGED <<emailQueue, now, records, inflight, delivery>>

\* The processor on a due job: transporter.sendMail, which reads the files
\* of the attachments and raises when one is missing; after a send that
\* returned, fs.unlink of every attachment file.
WorkerEmails(j, sendOk) ==
    LET job == jobs[j]
        sent == sendOk /\ job.data.attachments \subseteq files
    IN
    /\ emailQueue
    /\ j \in DOMAIN jobs
    /\ job.state = "delayed"
    /\ job.due <= now
    /\ jobs' = [jobs EXCEPT ![j] = IF sent THEN AttemptCompleted(job)
                                   ELSE AttemptFailed(job, now)]
    /\ files' = IF sent THEN files \ job.data.attachments ELSE files
    /\ delivery' = [id |-> j, by |-> "emails",
                    attempt |-> job.attemptsMade + 1, ok |-> sent,
                    at |-> now]
    /\ UNCHANGED <<emailQueue, now, records, jobCounter, uploads, inflight,
                   resp>>

NextEmails ==
    \/ \E dateTime \in DateStrings, hasFile \in BOOLEAN, addOk \in BOOLEAN,
          forwarded \in BOOLEAN :
          Quiet /\ ScheduleEmail(dateTime, hasFile, addOk, forwarded)
    \/ \E j \in DOMAIN jobs, sendOk \in BOOLEAN :
          Quiet /\ WorkerEmails(j, sendOk)
    \/ Quiet /\ Tick
    \/ Flush

SpecEmails == Init /\ [][NextEmails]_vars

(* ------------------------------ properties ---------------------------- *)

\* C1: every job of the queue, delayed or active, has as its identifier
\* the identifier of a document of the collection.
C1_QueuedJobHasRecord ==
    \A j \in Pending(jobs) : jobs[j].id \in DOMAIN records

\* C2: a document whose status is sent, failed or cancelled keeps that
\* status in every later step.
C2_TerminalStatusFinal ==
    [][\A id \in DOMAIN records :
          records[id].status \in {"sent", "failed", "cancelled"}
             => records'[id].status = records[id].status]_vars

\* C3: when the queue does not exist, or the submission to it raises, the
\* schedule request leaves its document with status sent or failed, not
\* scheduled.
C3_UnqueuedReachesTerminal ==
    [][\A c \in inflight :
          (/\ c.op = "schedule"
           /\ c \notin inflight'
           /\ ~emailQueue \/ resp'.error = QueueError)
          => records'[c.id].status \in {"sent", "failed"}]_vars

C5_TerminalCancelRejected ==
    [][\A c \in inflight :
          (/\ c.op = "cancel"
           /\ c \notin inflight'
           /\ c.job.status \in {"sent", "failed", "cancelled"}
           /\ records[c.id].status \in {"sent", "failed", "cancelled"})
          => /\ resp'.status >= 400
             /\ UNCHANGED <<records, jobs, files>>]_vars

\* C6: a DELETE by the owner that succeeds on a scheduled document whose
\* queued job has not begun leaves no job of that document for the worker
\* to run, and sets the status to cancelled.
C6_CancelRemovesJob ==
    [][\A c \in inflight :
          (/\ c.op = "cancel"
           /\ c \notin inflight'
           /\ resp'.status = 200
           /\ c.job.status = "scheduled"
           /\ records[c.id].status = "scheduled"
           /\ \E j \in DOMAIN jobs : jobs[j].data.emailJobId = c.id
           /\ \A j \in DOMAIN jobs :
                 jobs[j].data.emailJobId = c.id
                    => jobs[j].state = "delayed" /\ jobs[j].attemptsMade = 0)
          => /\ records'[c.id].status = "cancelled"
             /\ \A j \in Pending(jobs') :
                   jobs'[j].data.emailJobId # c.id]_vars

\* C7: in every document, the stored local time read in the stored zone is
\* the stored instant.
C7_LocalTimeNormalizes ==
    \A id \in DOMAIN records :
        /\ zonedTimeToUtc(records[id].originalLocalTime,
                          records[id].timezone).valid
        /\ zonedTimeToUtc(records[id].originalLocalTime,
                          records[id].timezone).ms = records[id].datetime

\* C8: when the channel has returned for a job, the end of the attempt
\* leaves the document with status sent and a sending time, and the job
\* completed, whether or not the record write returns.
C8_SentAfterSuccess ==
    [][\A j \in DOMAIN jobs :
          (/\ jobs[j].state = "active"
           /\ jobs[j].result = "ok"
           /\ j \in DOMAIN jobs'
           /\ jobs'[j].state # "active")
          => /\ jobs'[j].state = "completed"
             /\ records'[jobs[j].data.emailJobId].status = "sent"
             /\ records'[jobs[j].data.emailJobId].sentAt # <<>>]_vars

C10_ValidRequestCreatesOne ==
    [][\A datetime \in DateStrings, timezone \in Zones :
          (/\ Cardinality(DOMAIN records) < MaxRecords
           /\ datetime.kind = "ok"
           /\ zonedTimeToUtc(datetime, timezone).ms > now)
          => \A user \in Users, method \in Methods, hasFile \in BOOLEAN :
                ScheduleCreate(user, method, TRUE, TRUE, TRUE, datetime,
                               timezone, hasFile, TRUE, MaxRecords)
                => /\ \E id \in DOMAIN records' :
                         /\ DOMAIN records' = DOMAIN records \cup {id}
                         /\ id \notin DOMAIN records
                         /\ records'[id].status = "scheduled"
                   /\ UNCHANGED <<jobs, delivery>>]_vars

\* C11: the second step of a schedule request answers either 200 with the
\* identifier of its document, having added a job for that document or
\* having had the channel return for it, or 500 with an error message,
\* having added nothing; and a 200 answer of POST /api/schedule that carries
\* an identifier comes from such a step only.
C11_SuccessMeansSubmitted ==
    [][/\ \A c \in inflight :
             (c.op = "schedule" /\ c \notin inflight')
             => \/ /\ resp' = Response("schedule", 200, NoError, c.id)
                   /\ \/ \E j \in DOMAIN jobs' \ DOMAIN jobs :
                            jobs'[j].data.emailJobId = c.id
                      \/ /\ delivery'.id = c.id
                         /\ delivery'.by = "api"
                         /\ delivery'.ok
                \/ /\ resp'.op = "schedule"
                   /\ resp'.status = 500
                   /\ resp'.error # NoError
                   /\ resp'.jobId = NoId
                   /\ jobs' = jobs
       /\ (resp' # resp /\ resp'.op = "schedule" /\ resp'.status = 200)
             => \E c \in inflight :
                   c.op = "schedule" /\ c \notin inflight'
                      /\ c.id = resp'.jobId]_vars

\* C11, its case: without a queue, a schedule request has just been
\* answered 200 with its identifier after the channel returned for it.
C11_Witness ==
    /\ ~emailQueue
    /\ resp.op = "schedule"
    /\ resp.status = 200
    /\ delivery.by = "api"
    /\ delivery.ok
    /\ delivery.id = resp.jobId

\* C12: in server35.js, a schedule request answered with the success
\* message has added a job to the queue or has had the email sent.
C12_AcknowledgedMeansSubmitted ==
    [][\A c \in inflight :
          (c.op = "schedule35" /\ c \notin inflight' /\ resp'.status = 200)
          => \/ DOMAIN jobs' # DOMAIN jobs
             \/ delivery' # delivery]_vars

\* C13: while the record store returns, a PUT or a DELETE by a caller who
\* is not the userId of the document is answered 403, goes no further, and
\* changes neither the documents nor the queue nor removes any file; and
\* GET /api/jobs lists only documents whose userId is the caller.
C13_NonOwnerRejected ==
    [][/\ \A user \in Users, id \in RecordIds :
             (id \in DOMAIN records /\ records[id].userId # user)
             => /\ \A hasFile \in BOOLEAN :
                      UpdateRead(user, id, hasFile, TRUE)
                      => /\ resp'.op = "update"
                         /\ resp'.status = 403
                         /\ UNCHANGED <<records, jobs, inflight>>
                         /\ files \subseteq files'
                /\ CancelRead(user, id, TRUE)
                      => /\ resp'.op = "cancel"
                         /\ resp'.status = 403
                         /\ UNCHANGED <<records, jobs, inflight, files>>
       /\ \A user \in Users :
             ListJobs(user, TRUE)
             => \A i \in DOMAIN resp'.jobs :
                   records[resp'.jobs[i]].userId = user]_vars

\* C13, its case: a PUT on a document with an attachment has just been
\* answered 403.
C13_Witness ==
    /\ resp.op = "update"
    /\ resp.status = 403
    /\ \E id \in DOMAIN records : records[id].attachment.filename # 0

\* C14: a PUT by the owner on a document read with a status other than
\* scheduled, or with a zone that is not supported, or with a new target
\* before the current time, is answered 400; and every PUT answered 400
\* leaves the documents and the queue as they were and removes no file.
C14_RejectedUpdateChangesNothing ==
    [][/\ (resp' # resp /\ resp'.op = "update" /\ resp'.status = 400)
             => /\ UNCHANGED <<records, jobs, jobCounter>>
                /\ files \subseteq files'
       /\ \A user \in Users, id \in RecordIds, hasFile \in BOOLEAN :
             (/\ id \in DOMAIN records
              /\ records[id].userId = user
              /\ records[id].status # "scheduled"
              /\ UpdateRead(user, id, hasFile, TRUE))
             => resp'.op = "update" /\ resp'.status = 400
       /\ \A c \in inflight, datetime \in DateStrings \cup {AbsentString},
             timezone \in Zones \cup {BadZone, NoZone} :
             (/\ c.op = "update"
              /\ \/ timezone \notin Zones \cup {NoZone}
                 \/ /\ datetime.kind = "ok"
                    /\ zonedTimeToUtc(datetime,
                          OrElse(timezone, c.job.timezone)).ms < now)
             => \A addOk \in BOOLEAN, storeOk \in BOOLEAN :
                   UpdateApply(c, datetime, timezone, addOk, storeOk)
                   => resp'.op = "update" /\ resp'.status = 400]_vars

\* C14, its case: a PUT on a document with an attachment and a queued job
\* has just been answered "Date is in the past".
C14_Witness ==
    /\ resp.op = "update"
    /\ resp.status = 400
    /\ resp.error = "Date is in the past"
    /\ jobs # <<>>
    /\ \E id \in DOMAIN records : records[id].attachment.filename # 0

\* C15: a schedule request for an e-mail without a subject, its datetime
\* a date, is answered 400 and creates no document; an otherwise valid request for a text
\* message without a subject creates its document.
C15_SubjectRequiredForEmail ==
    [][Cardinality(DOMAIN records) < MaxRecords
       => \A user \in Users, datetime \in DateStrings,
             timezone \in Zones \cup {BadZone}, hasFile \in BOOLEAN :
             /\ \A hasFields \in BOOLEAN, toE164 \in BOOLEAN :
                   (/\ datetime.kind = "ok"
                    /\ ScheduleCreate(user, "email", hasFields, FALSE,
                                      toE164, datetime, timezone, hasFile,
                                      TRUE, MaxRecords))
                   => /\ resp'.op = "schedule"
                      /\ resp'.status = 400
                      /\ records' = records
             /\ \A method \in {"sms"} :
                   (/\ timezone \in Zones
                    /\ datetime.kind = "ok"
                    /\ zonedTimeToUtc(datetime, timezone).ms > now
                    /\ ScheduleCreate(user, method, TRUE, FALSE, TRUE,
                                      datetime, timezone, hasFile, TRUE,
                                      MaxRecords))
                   => DOMAIN records' # DOMAIN records]_vars

\* C16: while the record store returns, a schedule request whose datetime
\* is text that is no date is answered 400, creates no document and leaves nothing to be enqueued.
C16_UnparseableDateRejected ==
    [][Cardinality(DOMAIN records) < MaxRecords
       => \A user \in Users, method \in Methods, hasFields \in BOOLEAN,
             hasSubject \in BOOLEAN, toE164 \in BOOLEAN,
             timezone \in Zones \cup {BadZone}, hasFile \in BOOLEAN :
             ScheduleCreate(user, method, hasFields, hasSubject, toE164,
                            [kind |-> "bad", t |-> 0], timezone, hasFile,
                            TRUE, MaxRecords)
             => /\ resp'.op = "schedule"
                /\ resp'.status = 400
                /\ UNCHANGED <<records, jobs, inflight>>]_vars

\* C17: the step of POST /api/schedule that answers with a status from
\* 400 to 499 changes neither the documents nor the queue, and neither
\* ends nor starts the second step of a request: a 4xx answer is given
\* before anything is written.
C17_ClientErrorChangesNothing ==
    [][(resp' # resp /\ resp'.op = "schedule" /\ resp'.status \in 400..499)
       => UNCHANGED <<records, jobs, jobCounter, inflight>>]_vars

\* C17, its case: a request with an uploaded file has just been answered
\* "Invalid phone number".
C17_Witness ==
    /\ resp.op = "schedule"
    /\ resp.status = 400
    /\ resp.error = "Invalid phone number"
    /\ files # {}

C19_CancelKeepsWorkerStatus ==
    [][\A c \in inflight :
          (/\ c.op = "cancel"
           /\ c \notin inflight'
           /\ c.job.status = "scheduled"
           /\ records[c.id].status \in {"sent", "failed"})
          => records'[c.id].status = records[c.id].status]_vars

\* C20: with the queue, the worker never calls the channel for a document
\* before the instant that the document's datetime holds at the time of
\* the call.
C20_NoSendBeforeTarget ==
    (delivery # NoDelivery /\ delivery.by # "api")
        => delivery.at >= records[delivery.id].datetime

\* C21: every job the queue will still run has as its identifier the
\* emailJobId of its payload, which is the _id of a document, and no
\* document has more than one such job.
C21_JobKeyedByRecord ==
    /\ \A j \in Pending(jobs) :
          /\ jobs[j].id = jobs[j].data.emailJobId
          /\ jobs[j].id \in DOMAIN records
    /\ \A id \in DOMAIN records :
          Cardinality({j \in Pending(jobs) :
                          jobs[j].data.emailJobId = id}) <= 1

C23_InvocationTouchesOwnRecord ==
    [][\A j \in DOMAIN jobs :
          (/\ j \in DOMAIN jobs'
           /\ jobs'[j] # jobs[j]
           /\ jobs[j].state = "active" \/ jobs'[j].state = "active")
          => /\ DOMAIN jobs' = DOMAIN jobs
             /\ \A k \in DOMAIN jobs \ {j} : jobs'[k] = jobs[k]
             /\ DOMAIN records' = DOMAIN records
             /\ \A id \in DOMAIN records :
                   IF id = jobs[j].data.emailJobId
                   THEN \A f \in DOMAIN records[id]
                                \ {"status", "sentAt", "error"} :
                           records'[id][f] = records[id][f]
                   ELSE records'[id] = records[id]]_vars

\* C23, its case: two invocations for two documents are in flight at once,
\* one of them the retry of a job whose first attempt wrote failed.
C23_Witness ==
    \E j \in DOMAIN jobs, k \in DOMAIN jobs :
        /\ jobs[j].state = "active"
        /\ jobs[k].state = "active"
        /\ jobs[j].data.emailJobId # jobs[k].data.emailJobId
        /\ jobs[j].attemptsMade = 1
        /\ records[jobs[j].data.emailJobId].status = "failed"
        /\ records[jobs[k].data.emailJobId].status = "scheduled"

\* C24: every POST /schedule of part_008 that has ended was answered with a
\* response, which is a 500 when a record store call raised.
C24_EveryRequestAnswered ==
    resp.op = "schedule08" => resp.status \in {200, 400, 500}

\* C28: when a POST /schedule of part_008 ends without having added a job
\* (no queue, or the add raised), one send was attempted for its document;
\* after a send that returned the document is sent with a sentAt and the
\* response carries the jobId, after one that raised the document is
\* failed with the error and the response is a 500.
C28_FallbackSettlesRecord ==
    [][\A c \in inflight :
          (/\ c.op = "schedule08"
           /\ c \notin inflight'
           /\ jobs' = jobs)
          => /\ delivery'.id = c.id
             /\ delivery'.by = "api"
             /\ IF delivery'.ok
                THEN /\ records'[c.id].status = "sent"
                     /\ records'[c.id].sentAt # <<>>
                     /\ resp'.status = 200
                     /\ resp'.jobId = c.id
                ELSE /\ records'[c.id].status = "failed"
                     /\ records'[c.id].error = ChannelError(1)
                     /\ resp'.status = 500]_vars

\* C25: a request to a route under /api that is answered 401 (no Bearer
\* token, or a token that fails verification) changes neither the
\* collection nor the queue nor the files under uploads/.
C25_UnauthorizedChangesNothing ==
    [][(resp' # resp /\ resp'.status = 401)
          => UNCHANGED <<records, jobs, jobCounter, files, uploads,
                         inflight>>]_vars

\* C25, its case: a PUT without a valid token has been answered 401 while
\* a scheduled document with an attachment and its job exist.
C25_Witness ==
    /\ resp.op = "update"
    /\ resp.status = 401
    /\ files # {}
    /\ jobs # <<>>
    /\ \E id \in DOMAIN records : records[id].status = "scheduled"

\* C26: a schedule request with method whatsapp, its fields present, an
\* E.164 recipient, a supported zone and a target after the current time,
\* made while the record store returns, creates a scheduled document of
\* method whatsapp and goes on to the queue as a request of method sms
\* does; and every status a document holds is a value of the schema's enum.
C26_WhatsappAndStatusesDeclared ==
    [][/\ \A datetime \in DateStrings :
             (/\ Cardinality(DOMAIN records) < MaxRecords
              /\ datetime.kind = "ok"
              /\ zonedTimeToUtc(datetime, "UTC").ms > now
              /\ ScheduleCreate("u1", "whatsapp", TRUE, TRUE, TRUE,
                                datetime, "UTC", FALSE, TRUE, MaxRecords))
             => \E id \in DOMAIN records' \ DOMAIN records :
                   /\ records'[id].status = "scheduled"
                   /\ records'[id].method = "whatsapp"
                   /\ \E c \in inflight' \ inflight :
                         c.op = "schedule" /\ c.id = id
       /\ \A id \in DOMAIN records' : records'[id].status \in StatusEnum]_vars

\* C27: GET /api/jobs answers with each of the caller's documents once and
\* no other, in ascending order of datetime, and with counts that give for
\* each method the number of the caller's scheduled documents of it.
C27_ListSortedWithCounts ==
    [][\A user \in Users :
          ListJobs(user, TRUE)
          => LET js == resp'.jobs
                 mine == {id \in DOMAIN records : records[id].userId = user}
             IN
             /\ {js[i] : i \in 1..Len(js)} = mine
             /\ Len(js) = Cardinality(mine)
             /\ \A i \in 1..Len(js), k \in 1..Len(js) :
                   i < k => records[js[i]].datetime <= records[js[k]].datetime
             /\ \A c \in Methods :
                   resp'.counts[c]
                      = Cardinality({id \in mine :
                                        /\ records[id].method = c
                                        /\ records[id].status = "scheduled"})]_vars

\* C27, its case: the caller's two documents are listed, the later created
\* first, one of them a scheduled text message and the other, cancelled,
\* not counted.
C27_Witness ==
    /\ resp.op = "list"
    /\ resp.status = 200
    /\ Len(resp.jobs) = 2
    /\ resp.jobs[1] = ObjectId(2)
    /\ resp.counts["sms"] = 1
    /\ resp.counts["email"] = 0
    /\ records[ObjectId(1)].status = "cancelled"

\* C29: with the queue, every document whose status is scheduled, and whose
\* schedule request has ended, has a job in the queue, delayed or active,
\* that carries its identifier (as job id or as emailJobId).
C29_ScheduledHasJob ==
    emailQueue =>
        \A id \in DOMAIN records :
            (/\ records[id].status = "scheduled"
             /\ \A c \in inflight : c.id # id)
            => \E j \in Pending(jobs) :
                  jobs[j].id = id \/ jobs[j].data.emailJobId = id

\* C30: the worker's channel call does not return for a document that
\* already has a sentAt; and a PUT that read its document as scheduled and
\* reaches its queue calls after the worker has written sent adds no job,
\* since the worker sends for every job it runs.
C30_AtMostOneDelivery ==
    [][/\ (delivery' # delivery /\ delivery'.ok /\ delivery'.by # "api")
             => records[delivery'.id].sentAt = <<>>
       /\ \A c \in inflight :
             (/\ c.op = "update"
              /\ c \notin inflight'
              /\ c.job.status = "scheduled"
              /\ records[c.id].status = "sent")
             => Pending(jobs') \subseteq Pending(jobs)]_vars

\* C31: a job of the queue, delayed or active, for a document whose status
\* is scheduled carries in its payload the recipient and the attachment
\* reference that the document holds.
C31_PayloadMatchesRecord ==
    \A j \in Pending(jobs) :
        LET id == jobs[j].data.emailJobId IN
        (id \in DOMAIN records /\ records[id].status = "scheduled")
        => /\ jobs[j].data.to = records[id].to
           /\ jobs[j].data.attachment.filename
                 = records[id].attachment.filename

\* C32: a document has an error message only while its status is failed,
\* and a sentAt only while its status is sent.
C32_ErrorAndSentAtMatchStatus ==
    \A id \in DOMAIN records :
        /\ records[id].error # NoError => records[id].status = "failed"
        /\ records[id].sentAt # <<>> => records[id].status = "sent"

\* C33: in server1.js a call of sendEmail for an accepted request happens
\* in the minute of its scheduleTime, and not after a send for the same
\* request has succeeded; so a scheduleTime before the request causes none.
C33_CronSendsOnceOnTime ==
    delivery.by = "cron"
        => /\ delivery.at = jobs[delivery.id].runAt
           /\ delivery.attempt = 1

\* C34: in email-scheduler/server.js the attachment files of a job exist
\* when the processor runs it, a file leaves uploads/ only in a processor
\* run whose send returned, and a request answered 400 for a past dateTime
\* adds no job and leaves uploads/ as it was.
C34_AttachmentsKeptUntilSent ==
    [][/\ \A j \in DOMAIN jobs :
             (jobs[j].state = "delayed" /\ jobs'[j].state # "delayed")
             => jobs[j].data.attachments \subseteq files
       /\ ~(files \subseteq files')
             => delivery' # delivery /\ delivery'.ok
       /\ (resp' # resp /\ resp'.op = "schedule-email"
             /\ resp'.status = 400)
             => jobs' = jobs /\ files' = files]_vars

(* ---------------------- src/server.js: decrypt ------------------------ *)

\* The strings a client sends as a field. The two sealed texts stand for
\* the base64 of iv (16 bytes), ciphertext and tag (16 bytes) produced with
\* Key1; Corrupt has that layout and a tag that verifies under no key.
PlainPhone == "+15551234567"
ShortPhone == "+12345"
LocalPhone == "5551234567"
SpacedText == "call me"
SealedPhone == "base64(iv, Key1(+15551234567), tag)"
SealedText == "base64(iv, Key1(call me), tag)"
Corrupt == "base64(iv, bytes, other tag)"
EmptyText == ""
Texts == {PlainPhone, ShortPhone, LocalPhone, SpacedText, SealedPhone, SealedText, Corrupt, EmptyText}

\* PROVIDER_KEY: a non-empty string (the process exits without it). Key1
\* and Key2 have 16 characters or more, ShortKey has fewer.
Keys == {"Key1", "Key2", "ShortKey"}

\* key.slice(0, 16), in bytes.
KeyLength(key) == IF key = "ShortKey" THEN 8 ELSE 16

\* /^[A-Za-z0-9+/]*={0,2}$/.test(text): a plus sign and digits are base64
\* characters, a space is not.
IsBase64(text) == text # SpacedText

\* Buffer.from(text, 'base64').length: three bytes for four characters.
DecodedLength(text) ==
    CASE text = PlainPhone -> 9
      [] text = ShortPhone -> 4
      [] text = LocalPhone -> 7
      [] text = SealedPhone -> 44
      [] text = SealedText -> 39
      [] text = Corrupt -> 48
      [] OTHER -> 0

\* The key under which the tag of the text verifies.
SealedWith(text) == IF text \in {SealedPhone, SealedText} THEN "Key1" ELSE "none"

\* What was sealed.
Plaintext(text) ==
    CASE text = SealedPhone -> PlainPhone
      [] text = SealedText -> SpacedText
      [] OTHER -> EmptyText

\* The tag lengths setAuthTag takes for a GCM decipher.
AuthTagLengths == {4, 8, 12, 13, 14, 15, 16}

Min(a, b) == IF a < b THEN a ELSE b

Returned(value) == [raised |-> FALSE, value |-> value]

Raised == [raised |-> TRUE, value |-> EmptyText]

\* The try block: createDecipheriv refuses a key that is not 16 bytes and
\* an empty iv, setAuthTag refuses a tag of another length, final raises
\* when the tag does not verify.
DecryptTry(text, key) ==
    LET iv == Min(16, DecodedLength(text))
        authTag == Min(16, DecodedLength(text))
    IN IF KeyLength(key) # 16 \/ iv = 0 THEN Raised
       ELSE IF authTag \notin AuthTagLengths THEN Raised
       ELSE IF SealedWith(text) # key THEN Raised
       ELSE Returned(Plaintext(text))

\* decrypt whose try block has no catch.
decryptUncaught(encryptedText, key) ==
    IF ~IsBase64(encryptedText) THEN Returned(encryptedText)
    ELSE DecryptTry(encryptedText, key)

\* decrypt: a text that is not base64 is returned as it is; whatever the
\* try block raises is caught and the text is returned as it is.
decrypt(encryptedText, key) ==
    IF ~IsBase64(encryptedText) THEN Returned(encryptedText)
    ELSE IF DecryptTry(encryptedText, key).raised
         THEN Returned(encryptedText)
         ELSE DecryptTry(encryptedText, key)

\* /^\+[1-9]\d{1,14}$/.test(text)
PhoneRegex(text) == text \in {PlainPhone, ShortPhone}

DecryptError == "decrypt"

\* POST /api/schedule with recipient `to` under PROVIDER_KEY `key`: the
\* missing-fields check, then decrypt, then the handler on the decrypted
\* recipient. What decrypt raises reaches the catch of the handler.
ScheduleDecrypt(method, to, key, datetime, storeOk) ==
    IF to # EmptyText /\ decrypt(to, key).raised
    THEN /\ Cardinality(DOMAIN records) < MaxRecords
         /\ Cardinality(inflight) < MaxInflight
         /\ resp' = Response("schedule", 500, DecryptError, NoId)
         /\ UNCHANGED <<emailQueue, now, records, jobs, jobCounter, files,
                        uploads, inflight, delivery>>
    ELSE ScheduleCreateTo("u1", method, decrypt(to, key).value,
                          to # EmptyText, TRUE,
                          PhoneRegex(decrypt(to, key).value), datetime,
                          "UTC", FALSE, storeOk, MaxRecords)

\* PUT /api/jobs/:id that changes only the recipient, under key `key`.
UpdateDecrypt(c, to, key, addOk, storeOk) ==
    IF to # EmptyText /\ decrypt(to, key).raised
    THEN /\ c \in inflight
         /\ c.op = "update"
         /\ inflight' = inflight \ {c}
         /\ files' = files \ {c.file}
         /\ resp' = Response("update", 500, "Failed to update job", NoId)
         /\ UNCHANGED <<emailQueue, now, records, jobs, jobCounter, uploads,
                        delivery>>
    ELSE UpdateApplyData(c, decrypt(to, key).value, AbsentString, NoZone,
                         addOk, storeOk)

\* One caller, channels sms and whatsapp, every text and key; the record
\* store and the queue may fail in POST, every call of PUT returns.
NextDecrypt ==
    \/ \E method \in {"sms", "whatsapp"}, to \in Texts, key \in Keys,
          t \in LocalTimes, storeOk \in BOOLEAN :
          Quiet /\ ScheduleDecrypt(method, to, key,
                                   [kind |-> "ok", t |-> t], storeOk)
    \/ \E c \in inflight, addOk \in BOOLEAN :
          Quiet /\ ScheduleSubmit(c, addOk, TRUE)
    \/ \E id \in RecordIds : Quiet /\ UpdateRead("u1", id, FALSE, TRUE)
    \/ \E c \in inflight, to \in Texts, key \in Keys :
          Quiet /\ UpdateDecrypt(c, to, key, TRUE, TRUE)
    \/ \E j \in DOMAIN jobs : Quiet /\ WorkerSend(j, TRUE)
    \/ \E j \in DOMAIN jobs : Quiet /\ WorkerFinish(j, TRUE, TRUE)
    \/ Quiet /\ Tick
    \/ Flush

SpecDecrypt == Init /\ [][NextDecrypt]_vars

\* What decrypt is to return: the plaintext of a text sealed with the key,
\* else the text itself.
PlaintextOrInput(text, key) ==
    IF SealedWith(text) = key THEN Plaintext(text) ELSE text

\* C35: decrypt never raises and returns the decrypted plaintext or the
\* input string unchanged, for every input string and key; so no POST
\* /api/schedule and no PUT /api/jobs/:id is answered with an error that
\* comes from decrypt, and for sms and whatsapp the POST answers "Invalid
\* phone number" exactly when the returned recipient is not E.164, a
\* plaintext recipient included.
C35_DecryptNeverRaises ==
    [][\A to \in Texts \ {EmptyText}, key \in Keys :
          /\ ~decrypt(to, key).raised
          /\ decrypt(to, key).value = PlaintextOrInput(to, key)
          /\ (/\ resp' # resp
              /\ resp'.op = "schedule"
              /\ \E method \in {"sms", "whatsapp"}, t \in LocalTimes,
                    storeOk \in BOOLEAN :
                    ScheduleDecrypt(method, to, key,
                                    [kind |-> "ok", t |-> t], storeOk))
                => /\ resp'.error # DecryptError
                   /\ (resp'.error = "Invalid phone number")
                         <=> ~PhoneRegex(PlaintextOrInput(to, key))
          /\ (/\ inflight' # inflight
              /\ resp' = resp
              /\ \E method \in {"sms", "whatsapp"}, t \in LocalTimes :
                    ScheduleDecrypt(method, to, key,
                                    [kind |-> "ok", t |-> t], TRUE))
                => \E c \in inflight' :
                      /\ c.to = PlaintextOrInput(to, key)
                      /\ PhoneRegex(c.to)
                      /\ records'[c.id].to = c.to
          /\ (/\ resp' # resp
              /\ resp'.op = "update"
              /\ \E c \in inflight : UpdateDecrypt(c, to, key, TRUE, TRUE))
                => resp'.status = 200]_vars

\* C35 witness: a plaintext recipient that passes for base64, and whose
\* last four bytes pass for a tag, is stored as it was sent and the request
\* is answered 200.
C35_Witness ==
    \E id \in DOMAIN records :
        /\ records[id].to = ShortPhone
        /\ resp = Response("schedule", 200, NoError, id)

====
